---- MODULE Spec2Model ----
(***************************************************************************)
(* Model of the Freshdesk webhook pipeline of src/main.py                  *)
(* (freshdesk_webhook and the helpers it calls) and of the wrapper         *)
(* endpoint of src/server.py.                                              *)
(*                                                                         *)
(* One webhook event is handled per behaviour.  The handler is cut at its  *)
(* outbound calls: every action is the stretch of code between two         *)
(* network calls, with the call's outcome drawn from the outcomes the      *)
(* requests library can produce.  Confidences are hundredths (80 = 0.80).  *)
(*                                                                         *)
(* Spec runs the whole handler; SpecResolve runs get_master_ticket_id on   *)
(* every ticketing system, SpecExtract extract_requester_email on every    *)
(* payload of ExtractPayloads.                                             *)
(***************************************************************************)
EXTENDS Integers, Sequences, FiniteSets, TLC

VARIABLES
    policy,          \* ENABLE_AUTO_REPLY, AUTO_REPLY_CONFIDENCE, SAFE_INTENTS
    tickets,         \* the ticketing system: merge pointers of every ticket
    payload,         \* the argument of extract_requester_email (SpecExtract)
    pc,              \* position of the handler
    ticket_id,       \* local ticket_id   (0: falsy / not set)
    requester_email, \* local requester_email
    master_id,       \* local master_id   (0: not set)
    resolution,      \* what get_master_ticket_id did: reads, last id, error
    ticket_reads,    \* number of GET /tickets/<id> issued so far
    intent,          \* local intent
    confidence,      \* local confidence, in hundredths
    calls,           \* model and write calls issued so far, in order
    response,        \* the response body returned
    exception        \* the exception that left freshdesk_webhook ("": none)

vars == <<policy, tickets, payload, pc, ticket_id, requester_email, master_id,
          resolution, ticket_reads, intent, confidence, calls, response,
          exception>>

----------------------------------------------------------------------------
(* Bounds of the model *)

\* Python's recursion limit (1000 frames by default), scaled down: the depth
\* at which get_master_ticket_id raises RecursionError.
RecursionLimit == 12

\* The depth bound the specification names for master-id resolution.
DepthBound == 10

\* A read fault during master-id resolution strikes one of the first
\* MaxFaultAt reads, or none.
MaxFaultAt == 3

TicketIds == {7, 10, 11}

\* A merge pointer: 0 is "no pointer" (None, 0 and "" are all falsy).
Pointers == {0} \cup TicketIds

----------------------------------------------------------------------------
(* Strings and their case conversion *)

TEST_EMAIL == "komalsiddharth814@gmail.com"

\* str.lower() on the strings of the model
Lower(s) ==
    CASE s = "KomalSiddharth814@Gmail.com" -> "komalsiddharth814@gmail.com"
      [] s = "cf_Email" -> "cf_email"
      [] OTHER -> s

\* str.upper() on the intents of the model
Upper(s) ==
    CASE s = "general" -> "GENERAL"
      [] s = "billing" -> "BILLING"
      [] s = "payment" -> "PAYMENT"
      [] OTHER -> s

\* "email" in key.lower(), for the custom-field keys of the model
KeyHasEmail(key) == Lower(key) \in {"cf_email", "cf_alt_email"}

----------------------------------------------------------------------------
(* The webhook payload and extract_requester_email *)

\* What a payload key can hold: "ABSENT" the key is missing, "NULL" JSON
\* null, "NOTDICT" a value that is no object, "NOEMAIL" an object without an
\* "email" key; any other value of requester/contact is the "email" of the
\* object.
NoCustomFields == [kind |-> "absent", items |-> <<>>]

EmptyTicket ==
    [id |-> 0, description |-> "ABSENT",
     requester |-> "ABSENT", contact |-> "ABSENT",
     requester_email |-> "ABSENT", email |-> "ABSENT", from |-> "ABSENT",
     from_email |-> "ABSENT", email_address |-> "ABSENT",
     custom_fields |-> NoCustomFields]

\* value.lower(): AttributeError on None
LowerOrRaise(v) == IF v = "NULL" THEN "RAISE" ELSE Lower(v)

HasEmailKey(obj) == obj \notin {"ABSENT", "NOTDICT", "NOEMAIL"}

\* Python truthiness of a custom-field value
Truthy(v) == v \notin {"NULL", ""}

\* the loop of lines 163-166: the first matching key returns
RECURSIVE FirstCustomEmail(_)
FirstCustomEmail(items) ==
    IF items = <<>> THEN ""
    ELSE IF KeyHasEmail(Head(items).key) /\ Truthy(Head(items).value)
         THEN Lower(Head(items).value)
         ELSE FirstCustomEmail(Tail(items))

\* p.shape is "nested" (the ticket under the "ticket" key) or "flat" (the
\* ticket is the payload itself); p.ticket is `payload.get("ticket") or payload`.
\* The result is the address, "" when none is found, "RAISE" when .lower()
\* is called on None.
extract_requester_email(p) ==
    LET ticket == p.ticket IN
    IF HasEmailKey(ticket.requester) THEN LowerOrRaise(ticket.requester)
    ELSE IF HasEmailKey(ticket.contact) THEN LowerOrRaise(ticket.contact)
    ELSE IF ticket.requester_email # "ABSENT" THEN LowerOrRaise(ticket.requester_email)
    ELSE IF ticket.email # "ABSENT" THEN LowerOrRaise(ticket.email)
    ELSE IF ticket.from # "ABSENT" THEN LowerOrRaise(ticket.from)
    ELSE IF ticket.from_email # "ABSENT" THEN LowerOrRaise(ticket.from_email)
    ELSE IF ticket.email_address # "ABSENT" THEN LowerOrRaise(ticket.email_address)
    ELSE IF ticket.custom_fields.kind = "dict"
            /\ FirstCustomEmail(ticket.custom_fields.items) # ""
         THEN FirstCustomEmail(ticket.custom_fields.items)
    \* lines 168-173: payload["ticket"]["requester"]["email"], any failure caught
    ELSE IF p.shape = "nested" /\ HasEmailKey(ticket.requester)
            /\ ticket.requester # "NULL"
         THEN Lower(ticket.requester)
    ELSE ""

\* The payloads an event is drawn from.
PayloadEmails == {"ABSENT", "komalsiddharth814@gmail.com",
                  "KomalSiddharth814@Gmail.com", "someone@example.com", "NULL"}

Payloads ==
    {[shape |-> "invalid", top_id |-> 0, ticket |-> EmptyTicket]}
    \cup
    {[shape |-> s, top_id |-> IF s = "flat" THEN i ELSE j,
      ticket |-> [EmptyTicket EXCEPT !.id = i, !.description = d,
                                     !.requester = r,
                                     !.requester_email = e]] :
        s \in {"nested", "flat"}, i \in {0} \cup TicketIds,
        j \in {0} \cup TicketIds,
        d \in {"ABSENT", "NULL", "Please refund my payment"},
        r \in {"ABSENT", "NOEMAIL", "komalsiddharth814@gmail.com"},
        e \in PayloadEmails}

\* The handler's payload is a local of ReceiveWebhook, dead once lines
\* 270-276 have read it: the variable `payload` holds none there.
NoPayload == [shape |-> "none", top_id |-> 0, ticket |-> EmptyTicket]

\* The payloads extract_requester_email is run on by itself: every source
\* absent, empty, ill-formed or holding an address of its own.
ExtractPayloads ==
    {[shape |-> s, top_id |-> 0,
      ticket |-> [EmptyTicket EXCEPT !.requester = r, !.contact = c,
                                     !.requester_email = e1, !.email = e2,
                                     !.from = e3, !.from_email = e4,
                                     !.email_address = e5,
                                     !.custom_fields = cf]] :
        s \in {"nested", "flat"},
        r \in {"ABSENT", "NOEMAIL", "", "requester@example.com"},
        c \in {"ABSENT", "not-an-address", "contact@example.com"},
        e1 \in {"ABSENT", "NULL", "", "not-an-address",
                "requester_email@example.com"},
        e2 \in {"ABSENT", "", "KomalSiddharth814@Gmail.com"},
        e3 \in {"ABSENT", "from@example.com"},
        e4 \in {"ABSENT", "from_email@example.com"},
        e5 \in {"ABSENT", "email_address@example.com"},
        cf \in {NoCustomFields,
                [kind |-> "dict",
                 items |-> <<[key |-> "cf_course", value |-> "other@example.com"],
                             [key |-> "cf_Email", value |-> "custom@example.com"]>>],
                [kind |-> "dict",
                 items |-> <<[key |-> "cf_Email", value |-> ""],
                             [key |-> "cf_alt_email",
                              value |-> "custom@example.com"]>>],
                [kind |-> "dict",
                 items |-> <<[key |-> "cf_Email", value |-> "not-an-address"],
                             [key |-> "cf_alt_email",
                              value |-> "custom@example.com"]>>]}}

----------------------------------------------------------------------------
(* The ticketing system *)

\* get_freshdesk_ticket: 200 with the ticket, another status (None is
\* returned), or requests raising (timeout, connection error).
ReadOutcomes == {"ok", "non200", "timeout", "connection_error"}

ReadRaises(outcome) == outcome \in {"timeout", "connection_error"}

\* the requests exception of a read that raises
ReadException(outcome) ==
    IF outcome = "timeout" THEN "Timeout" ELSE "ConnectionError"

\* A write (note, reply, priority update): raise_for_status raises on 4xx and
\* 5xx, requests raises on a timeout.
WriteOutcomes == {"ok", "http4xx", "http5xx", "timeout"}

TicketRecords ==
    [merged_ticket_id : Pointers, cf_parent_ticket_id : Pointers]

AllTicketTables == [TicketIds -> TicketRecords]

Unmerged == [merged_ticket_id |-> 0, cf_parent_ticket_id |-> 0]

MergedInto(parent) == [merged_ticket_id |-> parent, cf_parent_ticket_id |-> 0]

ChildOf(parent) == [merged_ticket_id |-> 0, cf_parent_ticket_id |-> parent]

NoMerges == [t \in TicketIds |-> Unmerged]

\* The ticketing systems the whole handler is run against: no merge; 10
\* merged into 7; 11 a child of 10 and 10 merged into 7; 10 and 7 merged into
\* each other; 10 with both pointers set.  (SpecResolve runs the resolver
\* against AllTicketTables.)
SampleTicketTables ==
    {NoMerges,
     [NoMerges EXCEPT ![10] = MergedInto(7)],
     [NoMerges EXCEPT ![11] = ChildOf(10), ![10] = MergedInto(7)],
     [NoMerges EXCEPT ![10] = MergedInto(7), ![7] = MergedInto(10)],
     [NoMerges EXCEPT ![10] = [merged_ticket_id |-> 7,
                               cf_parent_ticket_id |-> 11],
                      ![11] = MergedInto(10)]}

\* a or b, on pointers
Or(a, b) == IF a # 0 THEN a ELSE b

\* line 111
parent_id_of(ticket) ==
    Or(ticket.merged_ticket_id, ticket.cf_parent_ticket_id)

\* One read fault per resolution, at read number `at` (0: none): the first
\* read that does not return a ticket ends the recursion either way.
ReadFaults ==
    {[at |-> 0, kind |-> "ok"]}
    \cup [at : 1..MaxFaultAt, kind : ReadOutcomes \ {"ok"}]

NoFault == [at |-> 0, kind |-> "ok"]

\* what get_master_ticket_id hands back: the id returned (or reached when it
\* raised), the exception raised ("": none), the reads made, and whether a
\* read returned no ticket
Resolved(id, error, reads, no_ticket) ==
    [id |-> id, error |-> error, reads |-> reads, no_ticket |-> no_ticket]

\* lines 112-114 without the recursion: the parent is returned as it is
get_master_ticket_id_OneHop(tk, id, depth, fault) ==
    LET outcome == IF fault.at = depth + 1 THEN fault.kind ELSE "ok" IN
    IF ReadRaises(outcome)
    THEN Resolved(id, ReadException(outcome), depth + 1, FALSE)
    ELSE IF outcome = "non200"
    THEN Resolved(id, "", depth + 1, TRUE)
    ELSE IF parent_id_of(tk[id]) # 0
    THEN Resolved(parent_id_of(tk[id]), "", depth + 1, FALSE)
    ELSE Resolved(id, "", depth + 1, FALSE)

\* get_master_ticket_id(id), entered at recursion depth `depth` (the number
\* of reads already made) on ticketing system `tk`, with read fault `fault`.
\* Python raises RecursionError when the recursion reaches its limit.
RECURSIVE get_master_ticket_id(_, _, _, _)
get_master_ticket_id(tk, id, depth, fault) ==
    IF depth >= RecursionLimit
    THEN Resolved(id, "RecursionError", depth, FALSE)
    ELSE LET outcome == IF fault.at = depth + 1 THEN fault.kind ELSE "ok" IN
         IF ReadRaises(outcome)
         THEN Resolved(id, ReadException(outcome), depth + 1, FALSE)
         ELSE IF outcome = "non200"
         THEN Resolved(id, "", depth + 1, TRUE)
         ELSE IF parent_id_of(tk[id]) # 0
         THEN get_master_ticket_id(tk, parent_id_of(tk[id]), depth + 1, fault)
         ELSE Resolved(id, "", depth + 1, FALSE)

\* What a ticket read returns about the requester (lines 287-297).
ApiTickets ==
    [requester : {"ABSENT", "NULL", "komalsiddharth814@gmail.com",
                  "KomalSiddharth814@Gmail.com", "someone@example.com"},
     custom_fields : {NoCustomFields,
                      [kind |-> "dict", items |-> <<>>],
                      [kind |-> "dict",
                       items |-> <<[key |-> "cf_Email",
                                    value |-> "KomalSiddharth814@Gmail.com"]>>]}]

\* What the read of the master ticket returns for get_customer_name:
\* requester "dict" is an object, contact its "contact" key.
MasterTickets ==
    [requester : {"ABSENT", "dict"}, contact : {"ABSENT", "NULL", "dict"}]

\* get_customer_name raises: contact.get on None (line 101)
CustomerNameRaises(data) == data.requester = "dict" /\ data.contact = "NULL"

\* the loop of lines 291-294: no break, the last matching key wins
RECURSIVE LastCustomEmail(_, _)
LastCustomEmail(items, acc) ==
    IF items = <<>> THEN acc
    ELSE LastCustomEmail(Tail(items),
             IF KeyHasEmail(Head(items).key) /\ Truthy(Head(items).value)
             THEN Lower(Head(items).value) ELSE acc)

----------------------------------------------------------------------------
(* Configuration (lines 30-32), after the parsing done at import *)

\* AUTO_REPLY_CONFIDENCE is any float of the environment (0 included) and
\* AUTO_REPLY_INTENTS any list of names (UNKNOWN included).
Policies ==
    [enabled : BOOLEAN,
     threshold : {0, 80, 95},
     safe_intents : {{"COURSE_INQUIRY", "GENERAL", "INQUIRY"},
                     {"GENERAL", "BILLING", "PAYMENT"},
                     {"GENERAL", "UNKNOWN"}}]

----------------------------------------------------------------------------
(* The language model's answer and its classification *)

\* confidences, in hundredths
Confidences == {0, 79, 80, 95}

\* "ABSENT": no "intent" key; "NOTSTRING": a value that is no string
RawIntents == {"ABSENT", "NOTSTRING", "GENERAL", "general", "BILLING",
               "payment", "REFUND"}

\* "absent": no "confidence" key; "null": JSON null; "text": a string that is
\* no number; "nan": NaN
RawConfidences ==
    [kind : {"absent", "null", "text", "nan"}, value : {0}]
    \cup [kind : {"number"}, value : Confidences]

\* call_openai and lines 359-361: requests raises ("timeout"),
\* raise_for_status raises ("http_error"), the response has no
\* choices[0].message.content ("bad_envelope"), the content is no JSON
\* ("not_json"), it is JSON but no object ("not_object"), or it is an object.
ModelAnswers ==
    [kind : {"timeout", "http_error", "bad_envelope", "not_json", "not_object"},
     intent : {"ABSENT"}, confidence : {[kind |-> "absent", value |-> 0]}]
    \cup [kind : {"object"}, intent : RawIntents, confidence : RawConfidences]

\* the except branch of lines 363-372 is taken
FallsBack(answer) ==
    answer.kind \in {"timeout", "http_error", "bad_envelope", "not_json"}

\* lines 357-372 with a fallback of full confidence
parsed_of_ConfidentFallback(answer) ==
    IF FallsBack(answer)
    THEN [kind |-> "object", intent |-> "UNKNOWN",
          confidence |-> [kind |-> "number", value |-> 100]]
    ELSE answer

\* lines 357-372: the value of `parsed`
parsed_of(answer) ==
    IF FallsBack(answer)
    THEN [kind |-> "object", intent |-> "UNKNOWN",
          confidence |-> [kind |-> "number", value |-> 0]]
    ELSE answer

\* what lines 374-375 raise ("": nothing): .get on a non-dict, .upper() on a
\* non-string, float() of None, float() of a non-numeric string
ClassifyException(p) ==
    IF p.kind = "not_object" \/ p.intent = "NOTSTRING" THEN "AttributeError"
    ELSE IF p.confidence.kind = "null" THEN "TypeError"
    ELSE IF p.confidence.kind = "text" THEN "ValueError"
    ELSE ""

\* line 374
intent_of(p) == IF p.intent = "ABSENT" THEN "UNKNOWN" ELSE Upper(p.intent)

\* lines 375-377
confidence_of(p) ==
    IF p.confidence.kind = "number" THEN p.confidence.value ELSE 0

\* line 379 with PAYMENT left out of the list
is_payment_issue_BillingOnly(i) == i \in {"BILLING"}

\* line 379
is_payment_issue(i) == i \in {"BILLING", "PAYMENT"}

\* line 409 with > for >=
auto_reply_ok_Strict(pol, i, c) ==
    pol.enabled /\ i \in pol.safe_intents /\ c > pol.threshold

\* line 409
auto_reply_ok(pol, i, c) ==
    pol.enabled /\ i \in pol.safe_intents /\ c >= pol.threshold

\* how the answer is logged in `calls`: "ok" is an object with a string
\* intent and a numeric confidence
AnswerClass(answer) ==
    IF answer.kind # "object" THEN answer.kind
    ELSE IF answer.intent \in {"ABSENT", "NOTSTRING"}
            \/ answer.confidence.kind \in {"absent", "null", "text"}
         THEN "bad_fields"
         ELSE "ok"

----------------------------------------------------------------------------
(* Responses *)

NoResponse ==
    [kind |-> "none", ok |-> FALSE, skipped |-> FALSE, reason |-> "",
     error |-> "", ticket |-> 0, master_ticket |-> 0, intent |-> "",
     confidence |-> 0, requester_email |-> "", auto_reply |-> FALSE]

\* lines 268, 281 and src/server.py line 37
ErrorResponse(e) == [NoResponse EXCEPT !.kind = "error", !.error = e]

\* lines 297, 300, 304
SkippedResponse(why) ==
    [NoResponse EXCEPT !.kind = "skipped", !.ok = TRUE, !.skipped = TRUE,
                       !.reason = why]

\* lines 424-436; auto_reply is line 431
ResponseData ==
    [NoResponse EXCEPT !.kind = "full", !.ok = TRUE, !.ticket = ticket_id,
                       !.master_ticket = master_id, !.intent = intent,
                       !.confidence = confidence,
                       !.requester_email = requester_email,
                       !.auto_reply =
                           /\ ~is_payment_issue(intent)
                           /\ auto_reply_ok(policy, intent, confidence)]

NoResolution == [reads |-> 0, last |-> 0, error |-> "", no_ticket |-> FALSE]

----------------------------------------------------------------------------
(* The handler *)

Init ==
    /\ policy \in Policies
    /\ tickets \in SampleTicketTables
    /\ payload = NoPayload
    /\ pc = "start"
    /\ ticket_id = 0
    /\ requester_email = ""
    /\ master_id = 0
    /\ resolution = NoResolution
    /\ ticket_reads = 0
    /\ intent = ""
    /\ confidence = 0
    /\ calls = <<>>
    /\ response = NoResponse
    /\ exception = ""

\* return `r`
Return(r) == pc' = "done" /\ response' = r /\ UNCHANGED exception

\* exception `e` leaves freshdesk_webhook
Raise(e) == pc' = "raised" /\ exception' = e /\ UNCHANGED response

\* go on at `label`
Goto(label) == pc' = label /\ UNCHANGED <<response, exception>>

\* lines 261-281
ReceiveWebhook ==
    /\ pc = "start"
    /\ \E p \in Payloads :
        LET tid == Or(p.ticket.id, p.top_id)
            email == extract_requester_email(p)
        IN IF p.shape = "invalid"
           THEN Return(ErrorResponse("invalid JSON"))
                /\ UNCHANGED <<ticket_id, requester_email>>
           ELSE /\ ticket_id' = tid
                \* line 274: description[:100] with description None
                /\ IF p.ticket.description = "NULL"
                   THEN Raise("TypeError") /\ UNCHANGED requester_email
                   ELSE IF email = "RAISE"
                   THEN Raise("AttributeError") /\ UNCHANGED requester_email
                   ELSE /\ requester_email' = email
                        /\ IF tid = 0
                           THEN Return(ErrorResponse("ticket id not found"))
                           ELSE Goto(IF email = "" THEN "fetch_email" ELSE "gate")
    /\ UNCHANGED <<policy, tickets, payload, master_id, resolution, ticket_reads,
                   intent, confidence, calls>>

\* lines 283-300
FetchRequesterEmail ==
    /\ pc = "fetch_email"
    /\ ticket_reads' = ticket_reads + 1
    /\ \E outcome \in ReadOutcomes, data \in ApiTickets :
        IF ReadRaises(outcome)
        THEN Raise(ReadException(outcome)) /\ UNCHANGED requester_email
        ELSE IF outcome = "non200"
        THEN Return(SkippedResponse("missing requester_email"))
             /\ UNCHANGED requester_email
        ELSE IF HasEmailKey(data.requester)
        THEN IF data.requester = "NULL"
             THEN Raise("AttributeError") /\ UNCHANGED requester_email
             ELSE requester_email' = Lower(data.requester) /\ Goto("gate")
        ELSE IF data.custom_fields.kind = "dict"
        THEN /\ requester_email' =
                    LastCustomEmail(data.custom_fields.items, requester_email)
             /\ Goto("gate")
        ELSE Return(SkippedResponse("missing requester_email"))
             /\ UNCHANGED requester_email
    /\ UNCHANGED <<policy, tickets, payload, ticket_id, master_id, resolution, intent,
                   confidence, calls>>

\* lines 302-306 without the comparison: every event goes on
TestEmailGate_Open ==
    /\ pc = "gate"
    /\ Goto("resolve")
    /\ UNCHANGED <<policy, tickets, payload, ticket_id, requester_email,
                   master_id, resolution, ticket_reads, intent, confidence,
                   calls>>

\* lines 302-306
TestEmailGate ==
    /\ pc = "gate"
    /\ IF Lower(requester_email) # Lower(TEST_EMAIL)
       THEN Return(SkippedResponse(""))
       ELSE Goto("resolve")
    /\ UNCHANGED <<policy, tickets, payload, ticket_id, requester_email, master_id,
                   resolution, ticket_reads, intent, confidence, calls>>

\* lines 308-313
ResolveMaster ==
    /\ pc = "resolve"
    /\ \E fault \in ReadFaults :
        LET r == get_master_ticket_id(tickets, ticket_id, 0, fault) IN
        /\ master_id' = IF r.error # "" THEN ticket_id ELSE r.id
        /\ resolution' = [reads |-> r.reads, last |-> r.id,
                          error |-> r.error, no_ticket |-> r.no_ticket]
        /\ ticket_reads' = ticket_reads + r.reads
    /\ Goto("fetch_master")
    /\ UNCHANGED <<policy, tickets, payload, ticket_id, requester_email, intent,
                   confidence, calls>>

\* lines 315-325: the read of the master ticket and get_customer_name; the
\* name and the course lookup that follows feed only the prompt and the texts
FetchMasterTicket ==
    /\ pc = "fetch_master"
    /\ ticket_reads' = ticket_reads + 1
    /\ \E outcome \in ReadOutcomes, data \in MasterTickets :
        IF ReadRaises(outcome)
        THEN Raise(ReadException(outcome))
        ELSE IF outcome = "ok" /\ CustomerNameRaises(data)
        THEN Raise("AttributeError")
        ELSE Goto("classify")
    /\ UNCHANGED <<policy, tickets, payload, ticket_id, requester_email, master_id,
                   resolution, intent, confidence, calls>>

\* lines 357-379
Classify ==
    /\ pc = "classify"
    /\ \E answer \in ModelAnswers :
        LET p == parsed_of(answer) IN
        /\ calls' = Append(calls, [op |-> "openai", id |-> 0,
                                   outcome |-> AnswerClass(answer)])
        /\ IF ClassifyException(p) # ""
           THEN Raise(ClassifyException(p)) /\ UNCHANGED <<intent, confidence>>
           ELSE /\ intent' = intent_of(p)
                /\ confidence' = confidence_of(p)
                /\ Goto("note")
    /\ UNCHANGED <<policy, tickets, payload, ticket_id, requester_email, master_id,
                   resolution, ticket_reads>>

\* lines 396-400 with the note left out for a payment issue
PostNote_NotForPayment ==
    /\ pc = "note"
    /\ \E outcome \in WriteOutcomes :
        calls' = IF is_payment_issue(intent) THEN calls
                 ELSE Append(calls, [op |-> "note", id |-> master_id,
                                     outcome |-> outcome])
    /\ Goto("dispatch")
    /\ UNCHANGED <<policy, tickets, payload, ticket_id, requester_email, master_id,
                   resolution, ticket_reads, intent, confidence>>

\* lines 396-400 with ticket_id for master_id
PostNote_RawId ==
    /\ pc = "note"
    /\ \E outcome \in WriteOutcomes :
        calls' = Append(calls, [op |-> "note", id |-> ticket_id,
                                outcome |-> outcome])
    /\ Goto("dispatch")
    /\ UNCHANGED <<policy, tickets, payload, ticket_id, requester_email, master_id,
                   resolution, ticket_reads, intent, confidence>>

\* lines 396-400
PostNote ==
    /\ pc = "note"
    /\ \E outcome \in WriteOutcomes :
        calls' = Append(calls, [op |-> "note", id |-> master_id,
                                outcome |-> outcome])
    /\ Goto("dispatch")
    /\ UNCHANGED <<policy, tickets, payload, ticket_id, requester_email, master_id,
                   resolution, ticket_reads, intent, confidence>>

\* lines 402-407, then 424-436
EscalatePriority ==
    /\ pc = "dispatch"
    /\ is_payment_issue(intent)
    /\ \E outcome \in WriteOutcomes :
        calls' = Append(calls, [op |-> "priority", id |-> master_id,
                                outcome |-> outcome])
    /\ Return(ResponseData)
    /\ UNCHANGED <<policy, tickets, payload, ticket_id, requester_email, master_id,
                   resolution, ticket_reads, intent, confidence>>

\* lines 408-419, then 424-436
PostAutoReply ==
    /\ pc = "dispatch"
    /\ ~is_payment_issue(intent)
    /\ auto_reply_ok(policy, intent, confidence)
    /\ \E outcome \in WriteOutcomes :
        calls' = Append(calls, [op |-> "reply", id |-> master_id,
                                outcome |-> outcome])
    /\ Return(ResponseData)
    /\ UNCHANGED <<policy, tickets, payload, ticket_id, requester_email, master_id,
                   resolution, ticket_reads, intent, confidence>>

\* lines 408-411 and 420-422, then 424-436
SkipAutoReply ==
    /\ pc = "dispatch"
    /\ ~is_payment_issue(intent)
    /\ ~auto_reply_ok(policy, intent, confidence)
    /\ Return(ResponseData)
    /\ UNCHANGED <<policy, tickets, payload, ticket_id, requester_email, master_id,
                   resolution, ticket_reads, intent, confidence, calls>>

\* src/server.py lines 31-37: the wrapper endpoint turns an exception of
\* freshdesk_webhook into an error body (main.py's own route does not)
WebhookEndpoint ==
    /\ pc = "raised"
    /\ Return(ErrorResponse(exception))
    /\ UNCHANGED <<policy, tickets, payload, ticket_id, requester_email, master_id,
                   resolution, ticket_reads, intent, confidence, calls>>

\* lines 136-176: extract_requester_email called on `payload`
ExtractRequesterEmail ==
    /\ pc = "extract"
    /\ LET email == extract_requester_email(payload) IN
        IF email = "RAISE"
        THEN Raise("AttributeError") /\ UNCHANGED requester_email
        ELSE /\ requester_email' = email
             /\ pc' = "extracted"
             /\ UNCHANGED <<response, exception>>
    /\ UNCHANGED <<policy, tickets, payload, ticket_id, master_id, resolution,
                   ticket_reads, intent, confidence, calls>>

Next ==
    \/ ReceiveWebhook
    \/ FetchRequesterEmail
    \/ TestEmailGate
    \/ ResolveMaster
    \/ FetchMasterTicket
    \/ Classify
    \/ PostNote
    \/ EscalatePriority
    \/ PostAutoReply
    \/ SkipAutoReply
    \/ WebhookEndpoint

Spec == Init /\ [][Next]_vars

\* get_master_ticket_id alone, from every ticket of every ticketing system
InitResolve ==
    /\ policy = [enabled |-> TRUE, threshold |-> 80,
                 safe_intents |-> {"COURSE_INQUIRY", "GENERAL", "INQUIRY"}]
    /\ tickets \in AllTicketTables
    /\ payload = NoPayload
    /\ pc = "resolve"
    /\ ticket_id \in TicketIds
    /\ requester_email = TEST_EMAIL
    /\ master_id = 0
    /\ resolution = NoResolution
    /\ ticket_reads = 0
    /\ intent = ""
    /\ confidence = 0
    /\ calls = <<>>
    /\ response = NoResponse
    /\ exception = ""

SpecResolve == InitResolve /\ [][ResolveMaster]_vars

\* extract_requester_email alone, on every payload of ExtractPayloads
InitExtract ==
    /\ policy = [enabled |-> TRUE, threshold |-> 80,
                 safe_intents |-> {"COURSE_INQUIRY", "GENERAL", "INQUIRY"}]
    /\ tickets = NoMerges
    /\ payload \in ExtractPayloads
    /\ pc = "extract"
    /\ ticket_id = 0
    /\ requester_email = ""
    /\ master_id = 0
    /\ resolution = NoResolution
    /\ ticket_reads = 0
    /\ intent = ""
    /\ confidence = 0
    /\ calls = <<>>
    /\ response = NoResponse
    /\ exception = ""

SpecExtract == InitExtract /\ [][ExtractRequesterEmail]_vars

----------------------------------------------------------------------------
(* Properties *)

\* the positions in `calls` of the calls of kind `op`
CallsOf(op) == {i \in 1..Len(calls) : calls[i].op = op}

Attempted(op) == CallsOf(op) # {}

WriteOps == {"note", "priority", "reply"}

\* the categories the specification calls sensitive and the code knows
SensitiveIntents == {"BILLING", "PAYMENT"}

\* C1: handling one event never issues both the priority update and a public
\* reply, and an event whose intent is BILLING or PAYMENT ends with the
\* priority update attempted and no public reply, whatever the policy
\* (also with BILLING or PAYMENT in the safe-intent list).
C1_EscalationExcludesReply ==
    /\ ~(Attempted("priority") /\ Attempted("reply"))
    /\ (pc = "done" /\ intent \in SensitiveIntents)
           => (Attempted("priority") /\ ~Attempted("reply"))

\* C1 witness: a PAYMENT event under a policy that lists PAYMENT as safe and
\* whose threshold the confidence meets was escalated.
C1_Witness ==
    /\ pc = "done"
    /\ intent = "PAYMENT"
    /\ policy.enabled
    /\ "PAYMENT" \in policy.safe_intents
    /\ confidence >= policy.threshold
    /\ Attempted("priority")

\* C2: when the model call fails or its answer is not an object with a string
\* intent and a numeric confidence, the handler goes on to the dispatch step
\* with intent UNKNOWN and confidence 0.
C2_BadAnswerFallsBack ==
    \A i \in CallsOf("openai") :
        calls[i].outcome # "ok"
            => /\ exception = ""
               /\ intent = "UNKNOWN"
               /\ confidence = 0

\* C3: for an event whose intent is not sensitive, the public reply is posted
\* (post_freshdesk_reply is called) exactly when auto-reply is enabled, the
\* intent is in the safe-intent list and the confidence is at least the
\* threshold, and the response's auto_reply is that conjunction.
C3_ReplyIffPolicyAllows ==
    (pc = "done" /\ response.kind = "full" /\ intent \notin SensitiveIntents)
        => LET allowed == /\ policy.enabled
                          /\ intent \in policy.safe_intents
                          /\ confidence >= policy.threshold
           IN /\ Attempted("reply") <=> allowed
              /\ response.auto_reply <=> allowed

\* C3 witness: a reply posted at confidence = threshold.
C3_Witness ==
    /\ pc = "done"
    /\ response.kind = "full"
    /\ intent \notin SensitiveIntents
    /\ confidence = policy.threshold
    /\ Attempted("reply")
    /\ response.auto_reply

ClaimPointer(t) ==
    IF t.merged_ticket_id # 0 THEN t.merged_ticket_id
    ELSE t.cf_parent_ticket_id

\* the ticket reached from `id` after at most `n` merge pointers
RECURSIVE ChainEnd(_, _, _)
ChainEnd(tk, id, n) ==
    IF n = 0 \/ ClaimPointer(tk[id]) = 0 THEN id
    ELSE ChainEnd(tk, ClaimPointer(tk[id]), n - 1)

\* the merge chain of `id` ends within DepthBound pointers
ChainWithinBound(tk, id) ==
    ClaimPointer(tk[ChainEnd(tk, id, DepthBound)]) = 0

ReadErrors == {"Timeout", "ConnectionError"}

\* every read of the resolution returned a ticket
ReadsSucceeded == resolution.error \notin ReadErrors /\ ~resolution.no_ticket

\* C5: when the merge chain of the ticket ends within the bound and every
\* read succeeds, resolution returns a ticket without merge pointer, resolving
\* that ticket again returns it, and ticket 10 merged into unmerged ticket 7
\* resolves to 7.
C5_ResolvesToMaster ==
    (pc = "fetch_master" /\ ChainWithinBound(tickets, ticket_id)
         /\ ReadsSucceeded)
        => /\ resolution.error = ""
           /\ ClaimPointer(tickets[master_id]) = 0
           /\ LET again == get_master_ticket_id(tickets, master_id, 0, NoFault)
              IN again.error = "" /\ again.id = master_id
           /\ (ticket_id = 10 /\ tickets[10].merged_ticket_id = 7
                   /\ ClaimPointer(tickets[7]) = 0) => master_id = 7

\* C5 witness: ticket 11, two merge pointers away from ticket 7, resolved
\* to 7 in three reads.
C5_Witness ==
    /\ pc = "fetch_master"
    /\ ticket_id = 11
    /\ ClaimPointer(tickets[11]) = 10
    /\ ClaimPointer(tickets[10]) = 7
    /\ ReadsSucceeded
    /\ resolution.reads = 3
    /\ master_id = 7

\* C6: when the merge chain does not end within the bound, resolution makes
\* at most DepthBound reads, raises nothing, and (its reads succeeding) yields
\* the last ticket id seen.
C6_ResolutionBounded ==
    (pc = "fetch_master" /\ ~ChainWithinBound(tickets, ticket_id))
        => /\ resolution.reads <= DepthBound
           /\ ReadsSucceeded
                  => resolution.error = "" /\ master_id = resolution.last

\* C7: no timeout or connection error of a ticket read leaves the handler,
\* and a resolution that met one uses the raw ticket id as master id.
C7_ReadFaultDegrades ==
    /\ exception \notin ReadErrors
    /\ (pc = "fetch_master" /\ resolution.error \in ReadErrors)
           => master_id = ticket_id

\* C8, as claimed: every write goes to master_id and never to the raw id of
\* a ticket that carries a merge pointer.
C8_NeverToMergedDuplicate ==
    \A i \in 1..Len(calls) :
        calls[i].op \in WriteOps
            => /\ calls[i].id = master_id
               /\ ~(calls[i].id = ticket_id
                        /\ ClaimPointer(tickets[ticket_id]) # 0)

\* C8, amended: every write goes to master_id, which is not the raw id of a
\* merged duplicate when resolution returned with every read succeeding.
C8_WritesGoToMasterId ==
    \A i \in 1..Len(calls) :
        calls[i].op \in WriteOps
            => /\ calls[i].id = master_id
               /\ (ClaimPointer(tickets[ticket_id]) # 0
                       /\ resolution.error = "" /\ ~resolution.no_ticket)
                      => calls[i].id # ticket_id

\* C8 witness: the note and the reply of an event for ticket 11 were posted
\* to ticket 7.
C8_Witness ==
    /\ pc = "done"
    /\ ticket_id = 11
    /\ master_id = 7
    /\ \E i \in CallsOf("note") : calls[i].id = 7
    /\ \E i \in CallsOf("reply") : calls[i].id = 7

Failed(i) == calls[i].outcome # "ok"

\* C9: when the note is posted and the reply fails, or the reply is posted
\* and the note fails, the response does not report the failed reply as a
\* sent auto-reply.
C9_FailedReplyNotReportedSent ==
    (pc = "done" /\ response.kind = "full")
        => \A n \in CallsOf("note"), r \in CallsOf("reply") :
               (~Failed(n) /\ Failed(r)) => ~response.auto_reply

Transient(i) == calls[i].outcome \in {"http5xx", "timeout"}

\* C10: a write that failed with a timeout or a 5xx was attempted again
\* before the handler answered, and one that failed with a 4xx was not.
C10_TransientFailureRetried ==
    pc = "done"
        => \A i \in 1..Len(calls) :
               calls[i].op \in WriteOps
                   => LET again == {j \in CallsOf(calls[i].op) : j > i}
                      IN /\ Transient(i) => again # {}
                         /\ calls[i].outcome = "http4xx" => again = {}

\* the handler made no outbound call: no ticket read, no model call, no write
NoOutboundCall == ticket_reads = 0 /\ calls = <<>>

\* C11: an event whose payload cannot be parsed or carries no ticket id ends
\* with freshdesk_webhook returning an error body (ok false and an error
\* reason), nothing raised, and no outbound call made.
C11_MalformedInputRejected ==
    (pc \in {"done", "raised"} /\ ticket_id = 0)
        => /\ pc = "done"
           /\ exception = ""
           /\ response.kind = "error"
           /\ ~response.ok
           /\ response.error # ""
           /\ NoOutboundCall

\* the model call of the event timed out
ModelTimedOut == \E i \in CallsOf("openai") : calls[i].outcome = "timeout"

\* the policy under which line 409 lets the fallback (UNKNOWN, 0.0) through
AllowsFallbackReply(pol) ==
    pol.enabled /\ "UNKNOWN" \in pol.safe_intents /\ pol.threshold <= 0

\* C12, as claimed: under every policy, an event whose model call timed out
\* is classified UNKNOWN with confidence 0, gets no public reply, and has its
\* private note attempted before the handler answers.
C12_TimeoutNeverReplies ==
    ModelTimedOut
        => /\ exception = ""
           /\ intent = "UNKNOWN"
           /\ confidence = 0
           /\ ~Attempted("reply")
           /\ pc = "done" => Attempted("note")

\* C12, amended: under every policy, an event whose model call timed out is
\* classified UNKNOWN with confidence 0 and has its private note attempted;
\* the public reply is posted exactly under a policy with auto-reply enabled,
\* UNKNOWN in the safe-intent list and threshold 0, and under no other.
C12_TimeoutFallsBack ==
    ModelTimedOut
        => /\ exception = ""
           /\ intent = "UNKNOWN"
           /\ confidence = 0
           /\ pc \in {"note", "dispatch", "done"}
           /\ pc # "note" => Attempted("note")
           /\ pc # "done" => ~Attempted("reply")
           /\ pc = "done"
                  => /\ response.kind = "full"
                     /\ Attempted("reply") <=> AllowsFallbackReply(policy)
                     /\ response.auto_reply <=> AllowsFallbackReply(policy)

\* C12 witness: a timed-out model call under a policy with auto-reply enabled
\* and UNKNOWN in the safe-intent list, answered with the note attempted and
\* no reply.
C12_Witness ==
    /\ pc = "done"
    /\ ModelTimedOut
    /\ policy.enabled
    /\ "UNKNOWN" \in policy.safe_intents
    /\ policy.threshold > 0
    /\ Attempted("note")
    /\ ~Attempted("reply")

\* the model's syntactically valid addresses
ValidAddress(v) ==
    v \in {"requester@example.com", "contact@example.com",
           "requester_email@example.com", "KomalSiddharth814@Gmail.com",
           "komalsiddharth814@gmail.com", "from@example.com",
           "from_email@example.com", "email_address@example.com",
           "custom@example.com", "other@example.com", "someone@example.com"}

\* the first custom field whose key contains "email" and whose value is a
\* valid address ("": none)
RECURSIVE FirstValidCustomEmail(_)
FirstValidCustomEmail(items) ==
    IF items = <<>> THEN ""
    ELSE IF KeyHasEmail(Head(items).key) /\ ValidAddress(Head(items).value)
         THEN Head(items).value
         ELSE FirstValidCustomEmail(Tail(items))

\* the first valid address in the priority order of the claim ("": none)
FirstValidAddress(ticket) ==
    IF ValidAddress(ticket.requester) THEN ticket.requester
    ELSE IF ValidAddress(ticket.contact) THEN ticket.contact
    ELSE IF ValidAddress(ticket.requester_email) THEN ticket.requester_email
    ELSE IF ValidAddress(ticket.email) THEN ticket.email
    ELSE IF ValidAddress(ticket.from) THEN ticket.from
    ELSE IF ValidAddress(ticket.from_email) THEN ticket.from_email
    ELSE IF ValidAddress(ticket.email_address) THEN ticket.email_address
    ELSE IF ticket.custom_fields.kind = "dict"
         THEN FirstValidCustomEmail(ticket.custom_fields.items)
    ELSE ""

\* C13: extract_requester_email returns (lowercased) the first syntactically
\* valid address in the order requester object, contact object, flat fields
\* requester_email, email, from, from_email, email_address, custom fields
\* whose key contains "email"; a source that is present but empty or
\* ill-formed is passed over, and the result is empty only when no source
\* holds a valid address.
C13_FirstValidAddressWins ==
    pc \in {"extracted", "raised"}
        => /\ pc = "extracted"
           /\ requester_email = Lower(FirstValidAddress(payload.ticket))

\* the requester email of the event, compared as line 302 compares it, is
\* not the test address
NotFromTestAddress == Lower(requester_email) # Lower(TEST_EMAIL)

\* C14, as claimed: every event whose requester email is not the test
\* address is answered with the skipped response, with no model call and no
\* write made.
C14_OtherAddressSkipped ==
    (pc = "done" /\ exception = "" /\ requester_email # ""
         /\ NotFromTestAddress)
        => response.kind = "skipped" /\ calls = <<>>

\* C14, amended: an event whose requester email is not the test address gets
\* no model call and no write and never the full response: it is answered
\* with the skipped response, or with an error response when it carries no
\* ticket id or the handler raised; every model call and every write belongs
\* to an event from the test address.
C14_OnlyTestAddressProcessed ==
    /\ (calls # <<>> \/ response.kind = "full"
            \/ pc \in {"resolve", "fetch_master", "classify", "note",
                       "dispatch"})
           => ~NotFromTestAddress
    /\ (pc = "done" /\ NotFromTestAddress)
           => /\ calls = <<>>
              /\ response.kind \in {"skipped", "error"}
              /\ response.kind = "error" => (ticket_id = 0 \/ exception # "")

\* C14 witness: an event without email in its payload, whose ticket read
\* gave another address than the test address, was skipped with nothing
\* called.
C14_Witness ==
    /\ pc = "done"
    /\ ticket_id # 0
    /\ ticket_reads = 1
    /\ requester_email = "someone@example.com"
    /\ response.kind = "skipped"
    /\ calls = <<>>

====
